---- MODULE Spec2Model ----
(***************************************************************************)
(* moss `sync` (moss/src/cli/sync.rs) and `state` (moss/src/cli/state.rs)  *)
(* over a registry, a resolver and a state store.  One `sync` run is a     *)
(* sequence of phases, each ending at a call to a collaborator (repository *)
(* refresh, system-model load, resolution, confirmation, cache_packages,   *)
(* new_state) that may fail and end the run.  A `state` subcommand is one  *)
(* step: its arguments are parsed, the store is called once and the        *)
(* outcome is printed.                                                     *)
(***************************************************************************)
EXTENDS Integers, Sequences, FiniteSets, TLC

VARIABLES
    available,      \* ids of the packages the enabled repositories advertise
    stateDb,        \* state store: state id -> ordered list of Selections
    active,         \* Installation.active_state (NoState = None)
    nextId,         \* next state id the store allocates
    pc,             \* position of the running sync ("idle" = no run)
    args,           \* the run's inputs: flags, import, installation system model
    system_model,   \* handle's `system_model`
    installed,      \* handle's `installed`
    finalized,      \* handle's `finalized`
    synced,         \* handle's `synced`
    removed,        \* handle's `removed`
    new_selections, \* the selections handed to new_state
    answer,         \* what the confirmation prompt returned ("none": not asked)
    lost,           \* synced packages cache_packages failed to fetch
    result,         \* outcome of the run
    ended,          \* the phase in which the run returned
    tx,             \* the transaction the run opened: lookup strategy and seeds
    calls,          \* collaborator calls of the run, in order
    pre,            \* store and pointer as they were when the run began
    prev,           \* the last finished run, when it committed a state
    missing_provider, \* the provider a MissingSystemModelPackage error carries
    cmd,            \* the running `state` command, its arguments and outcome
    document        \* the system-model document `state export` wrote

vars == <<available, stateDb, active, nextId, pc, args, system_model, installed,
          finalized, synced, removed, new_selections, answer, lost, result, ended,
          tx, calls, pre, prev, missing_provider, cmd, document>>

----------------------------------------------------------------------------
(* Bounds *)

\* state ids handed out by the store are capped at MaxStateId
MaxStateId == 3

----------------------------------------------------------------------------
(* The package universe: every package some repository or the installation *)
(* may know.  a2 is a newer build of a1 that dropped its dependency, b2 a  *)
(* newer build of b1 that also provides the virtual capability "v" and     *)
(* gained a dependency.                                                    *)

PackageIds == {"a1", "a2", "b1", "b2"}

\* Registry order: repository priority, highest first
Priority == <<"a2", "a1", "b2", "b1">>

Name(id) == IF id \in {"a1", "a2"} THEN "a" ELSE "b"

Providers(id) ==
    CASE id \in {"a1", "a2"} -> {"a"}
      [] id = "b1" -> {"b"}
      [] OTHER -> {"b", "v"}

\* required providers, in declaration order
Requires(id) ==
    CASE id = "a1" -> <<"b">>
      [] id = "b2" -> <<"a">>
      [] OTHER -> <<>>

\* system-model documents, by their declared provider sets: the one a run
\* may find on the installation and the one `import` may name
InstalledModel == {"a"}
ImportedModel == {"a", "v"}

NoState == 0
NoModel == [some |-> FALSE, packages |-> {}]
SomeModel(m) == [some |-> TRUE, packages |-> m]

----------------------------------------------------------------------------
(* Sequence helpers *)

Range(s) == {s[i] : i \in DOMAIN s}
Ids(pkgs) == [i \in DOMAIN pkgs |-> pkgs[i].id]
First(s) == [some |-> s # <<>>, id |-> IF s # <<>> THEN Head(s) ELSE ""]

\* providers in the iteration order of an ordered set
ProviderOrder == <<"a", "b", "v">>

----------------------------------------------------------------------------
(* Registry (spec 4.1): read-only queries over installed + advertised      *)
(* packages, every result ordered by repository priority, highest first.   *)

InstalledIds(inst) == Range(Ids(inst))

by_name(name, avail) ==
    SelectSeq(Priority, LAMBDA id : id \in avail /\ Name(id) = name)

by_provider_id_only(provider, avail) ==
    SelectSeq(Priority, LAMBDA id : id \in avail /\ provider \in Providers(id))

\* ids the registry can answer by_id for
Known(avail, inst) == avail \cup InstalledIds(inst)

\* list_installed: the packages of the active state, in selection order,
\* each flagged explicit as its selection says
list_installed(db, act) ==
    IF act \in DOMAIN db
    THEN [i \in DOMAIN db[act] |->
            [id |-> db[act][i].package, explicit |-> db[act][i].explicit]]
    ELSE <<>>

----------------------------------------------------------------------------
(* Transaction / resolver (spec 4.2) *)

Failed == <<"MissingProvider">>

\* one candidate per provider: the highest-priority advertised package, and
\* under PreferAvailable an installed one when no repository has any
Candidate(tok, lookup, avail, inst) ==
    LET fromRepo == by_provider_id_only(tok, avail)
        fromInst == by_provider_id_only(tok, InstalledIds(inst))
    IN  IF fromRepo # <<>> THEN First(fromRepo)
        ELSE IF lookup = "PreferAvailable" THEN First(fromInst)
        ELSE First(<<>>)

\* Closure over dependencies in insertion order.  `work` is a stack of
\* package ids and provider requests; a request already satisfied by a
\* package of the closure is skipped.
RECURSIVE Closure(_, _, _, _, _)
Closure(work, acc, lookup, avail, inst) ==
    IF work = <<>> THEN acc
    ELSE LET item == Head(work)
             rest == Tail(work)
         IN  IF item.kind = "pkg"
             THEN IF item.v \in Range(acc)
                  THEN Closure(rest, acc, lookup, avail, inst)
                  ELSE Closure(
                         [i \in DOMAIN Requires(item.v) |->
                             [kind |-> "prov", v |-> Requires(item.v)[i]]] \o rest,
                         Append(acc, item.v), lookup, avail, inst)
             ELSE IF \E q \in Range(acc) : item.v \in Providers(q)
                  THEN Closure(rest, acc, lookup, avail, inst)
                  ELSE LET c == Candidate(item.v, lookup, avail, inst)
                       IN  IF c.some
                           THEN Closure(<<[kind |-> "pkg", v |-> c.id]>> \o rest,
                                        acc, lookup, avail, inst)
                           ELSE Failed

\* tx.add(seeds) then tx.finalize(): an unknown seed id or an unsatisfiable
\* provider fails the transaction
Transaction(lookup, seeds, avail, inst) ==
    IF \E i \in DOMAIN seeds : seeds[i] \notin Known(avail, inst)
    THEN [ok |-> FALSE, lookup |-> lookup, seeds |-> seeds, packages |-> <<>>]
    ELSE LET out == Closure([i \in DOMAIN seeds |-> [kind |-> "pkg", v |-> seeds[i]]],
                            <<>>, lookup, avail, inst)
         IN  [ok |-> out # Failed, lookup |-> lookup, seeds |-> seeds,
              packages |-> IF out = Failed THEN <<>> ELSE out]

----------------------------------------------------------------------------
(* sync.rs: resolution *)

\* SyncSeed taking the lowest-priority candidate instead of the first
SyncSeed_last(p, all_ids, avail) ==
    LET found == by_name(Name(p.id), avail)
        lookup == [some |-> found # <<>>,
                   id |-> IF found # <<>> THEN found[Len(found)] ELSE ""]
    IN  IF lookup.some /\ lookup.id \notin all_ids THEN lookup.id ELSE p.id

\* the seed one explicit installed package contributes
SyncSeed(p, all_ids, avail) ==
    LET lookup == First(by_name(Name(p.id), avail))
    IN  IF lookup.some /\ lookup.id \notin all_ids THEN lookup.id ELSE p.id

with_sync(packages, avail) ==
    LET all_ids == InstalledIds(packages)
        expl == SelectSeq(packages, LAMBDA p : p.explicit)
    IN  [i \in DOMAIN expl |-> SyncSeed(expl[i], all_ids, avail)]

resolve_with_installed(avail, packages) ==
    LET t == Transaction("PreferAvailable", with_sync(packages, avail), avail, packages)
    IN  [err |-> IF t.ok THEN "none" ELSE "Transaction", provider |-> "",
         tx |-> [opened |-> TRUE, lookup |-> t.lookup, seeds |-> t.seeds],
         packages |-> t.packages]

NoTx == [opened |-> FALSE, lookup |-> "", seeds |-> <<>>]

\* resolve_with_system_model dropping the providers that have no candidate
resolve_with_system_model_lenient(avail, model, inst) ==
    LET declared == SelectSeq(ProviderOrder, LAMBDA pr :
                        pr \in model.packages /\ by_provider_id_only(pr, avail) # <<>>)
        t == Transaction("AvailableOnly",
                 [i \in DOMAIN declared |-> Head(by_provider_id_only(declared[i], avail))],
                 avail, inst)
    IN  [err |-> IF t.ok THEN "none" ELSE "Transaction", provider |-> "",
         tx |-> [opened |-> TRUE, lookup |-> t.lookup, seeds |-> t.seeds],
         packages |-> t.packages]

resolve_with_system_model(avail, model, inst) ==
    LET declared == SelectSeq(ProviderOrder, LAMBDA pr : pr \in model.packages)
        found == [i \in DOMAIN declared |-> First(by_provider_id_only(declared[i], avail))]
        missing == SelectSeq(declared, LAMBDA pr : by_provider_id_only(pr, avail) = <<>>)
    IN  IF missing # <<>>
        THEN [err |-> "MissingSystemModelPackage", provider |-> Head(missing),
              tx |-> NoTx, packages |-> <<>>]
        ELSE LET t == Transaction("AvailableOnly", [i \in DOMAIN found |-> found[i].id],
                                  avail, inst)
             IN  [err |-> IF t.ok THEN "none" ELSE "Transaction", provider |-> "",
                  tx |-> [opened |-> TRUE, lookup |-> t.lookup, seeds |-> t.seeds],
                  packages |-> t.packages]

----------------------------------------------------------------------------
(* sync.rs: the diff and the new selections *)

\* Synced with `all` in place of `any`
Synced_all(fin, inst, ephemeral) ==
    SelectSeq(fin, LAMBDA p : ephemeral \/ ~(\A i \in DOMAIN inst : inst[i].id = p))

\* Synced without the ephemeral case
Synced_stateful(fin, inst, ephemeral) ==
    SelectSeq(fin, LAMBDA p : ~(\E i \in DOMAIN inst : inst[i].id = p))

Synced(fin, inst, ephemeral) ==
    SelectSeq(fin, LAMBDA p : ephemeral \/ ~(\E i \in DOMAIN inst : inst[i].id = p))

\* Removed comparing ids instead of names
Removed_by_id(inst, fin) ==
    Ids(SelectSeq(inst, LAMBDA p : ~(\E f \in DOMAIN fin : fin[f] = p.id)))

Removed(inst, fin) ==
    Ids(SelectSeq(inst, LAMBDA p : ~(\E f \in DOMAIN fin : Name(fin[f]) = Name(p.id))))

\* SystemModelSelections matching the package name instead of its providers
SystemModelSelections_by_name(fin, model) ==
    [k \in DOMAIN fin |->
        [package |-> fin[k],
         explicit |-> Name(fin[k]) \in model.packages,
         reason |-> "none"]]

\* SystemModelSelections flagging every finalized package explicit
SystemModelSelections_all_explicit(fin, model) ==
    [k \in DOMAIN fin |-> [package |-> fin[k], explicit |-> TRUE, reason |-> "none"]]

SystemModelSelections(fin, model) ==
    [k \in DOMAIN fin |->
        [package |-> fin[k],
         explicit |-> (model.packages \cap Providers(fin[k])) # {},
         reason |-> "none"]]

\* CarriedSelection looking the previous selection up under the new id
CarriedSelection_new_id(p, inst, previous_selections) ==
    LET hit == SelectSeq(previous_selections, LAMBDA s : s.package = p)
    IN  IF hit # <<>>
        THEN [package |-> p, explicit |-> Head(hit).explicit, reason |-> Head(hit).reason]
        ELSE [package |-> p, explicit |-> FALSE, reason |-> "none"]

\* CarriedSelection keeping the id of the installed build
CarriedSelection_old_id(p, inst, previous_selections) ==
    LET named == SelectSeq(inst, LAMBDA i : Name(i.id) = Name(p))
        lookup_id == IF named # <<>> THEN Head(named).id ELSE p
        hit == SelectSeq(previous_selections, LAMBDA s : s.package = lookup_id)
    IN  IF hit # <<>>
        THEN Head(hit)
        ELSE [package |-> p, explicit |-> FALSE, reason |-> "none"]

\* the selection of one finalized package, looked up in the previous state
\* under the id of the installed package of the same name
CarriedSelection(p, inst, previous_selections) ==
    LET named == SelectSeq(inst, LAMBDA i : Name(i.id) = Name(p))
        lookup_id == IF named # <<>> THEN Head(named).id ELSE p
        hit == SelectSeq(previous_selections, LAMBDA s : s.package = lookup_id)
    IN  IF hit # <<>>
        THEN [package |-> p, explicit |-> Head(hit).explicit, reason |-> Head(hit).reason]
        ELSE [package |-> p, explicit |-> FALSE, reason |-> "none"]

CarriedSelections(fin, inst, previous_selections) ==
    [k \in DOMAIN fin |-> CarriedSelection(fin[k], inst, previous_selections)]

----------------------------------------------------------------------------
(* State store (spec 4.3) and client *)

Sel(id, e, r) == [package |-> id, explicit |-> e, reason |-> r]

\* new_state: the next id is allocated, the record is appended and becomes
\* the active state; an ephemeral client records no state at all
new_state(db, act, nid, selections, ephemeral) ==
    IF ephemeral
    THEN [db |-> db, active |-> act, next |-> nid]
    ELSE [db |-> [i \in DOMAIN db \cup {nid} |-> IF i = nid THEN selections ELSE db[i]],
          active |-> nid, next |-> nid + 1]

----------------------------------------------------------------------------
(* Inputs of a run *)

Imports ==
    {[kind |-> "none", packages |-> {}], [kind |-> "nofile", packages |-> {}],
     [kind |-> "file", packages |-> ImportedModel]}

\* `import` may also name the document `state export` wrote
ExportedImports(doc) ==
    IF doc.written THEN {[kind |-> "file", packages |-> doc.packages]} ELSE {}

InstallationModels == {NoModel, SomeModel(InstalledModel)}

NoArgs == [yes_all |-> FALSE, update |-> FALSE, blit_target |-> FALSE,
           import |-> [kind |-> "none", packages |-> {}], inst_model |-> NoModel]

\* no `state` command is running
NoCmd == [op |-> "none", ID |-> <<0, 0, 0, 0>>, id |-> NoState, yes |-> FALSE,
          keep |-> 0, include_newer |-> FALSE, result |-> "none", error |-> "none",
          old |-> NoState, removals |-> {}, confirmed |-> FALSE, printed |-> <<>>,
          before |-> [stateDb |-> <<>>, active |-> NoState]]

\* no document has been exported yet
NoDocument == [written |-> FALSE, state |-> NoState, packages |-> {}]

NoPre == [stateDb |-> <<>>, active |-> NoState, available |-> {}]
NoPrev == [committed |-> FALSE, model |-> NoModel, available |-> {}]

\* the selections of the states an installation starts with, by state id
StoredSelections(i) ==
    CASE i % 3 = 1 -> <<Sel("a1", TRUE, "user"), Sel("b1", FALSE, "none")>>
      [] i % 3 = 2 -> <<Sel("a2", TRUE, "none"), Sel("b2", TRUE, "user")>>
      [] OTHER -> <<Sel("b1", TRUE, "user")>>

\* installations a run may find: nothing installed yet, or one state
InitialSelections == {StoredSelections(i) : i \in 1..3}

Locals0 ==
    /\ args = NoArgs
    /\ system_model = NoModel
    /\ installed = <<>>
    /\ finalized = <<>>
    /\ synced = <<>>
    /\ removed = <<>>
    /\ new_selections = <<>>
    /\ answer = "none"
    /\ lost = {}
    /\ result = "none"
    /\ ended = "none"
    /\ tx = NoTx
    /\ calls = <<>>
    /\ pre = NoPre
    /\ missing_provider = ""

ResetLocals ==
    /\ args' = NoArgs
    /\ system_model' = NoModel
    /\ installed' = <<>>
    /\ finalized' = <<>>
    /\ synced' = <<>>
    /\ removed' = <<>>
    /\ new_selections' = <<>>
    /\ answer' = "none"
    /\ lost' = {}
    /\ result' = "none"
    /\ ended' = "none"
    /\ tx' = NoTx
    /\ calls' = <<>>
    /\ pre' = NoPre
    /\ missing_provider' = ""

Init ==
    /\ available \in SUBSET PackageIds
    /\ \/ /\ stateDb = <<>>
          /\ active = NoState
          /\ nextId = 1
       \/ /\ \E sels \in InitialSelections : stateDb = <<sels>>
          /\ active = 1
          /\ nextId = 2
    /\ pc = "idle"
    /\ Locals0
    /\ prev = NoPrev
    /\ cmd = NoCmd
    /\ document = NoDocument

----------------------------------------------------------------------------
(* One sync run, sync.rs handle() *)

\* is_ephemeral for a client that was never made ephemeral
is_ephemeral_never(a) == FALSE

\* lines 66-69: a blit target makes the client ephemeral
is_ephemeral(a) == a.blit_target

\* Return that lets the run go on to its next phase
Return_falling_through(phase, res) ==
    /\ result' = res
    /\ ended' = phase
    /\ pc' = CASE phase = "open" -> "opened"
              [] phase = "load" -> "loaded"
              [] phase = "resolve" -> "resolved"
              [] phase = "diff" -> "diffed"
              [] phase = "confirm" -> "confirmed"
              [] phase = "cache" -> "cached"
              [] OTHER -> "done"

\* the run returns `res` from `phase`
Return(phase, res) ==
    /\ result' = res
    /\ ended' = phase
    /\ pc' = "done"

Continue(to) ==
    /\ pc' = to
    /\ UNCHANGED <<result, ended>>

\* lines 56-74: arguments, client, ephemeral client, repository refresh
SyncOpen ==
    /\ pc = "idle"
    /\ nextId <= MaxStateId
    /\ \E a \in [yes_all : BOOLEAN, update : BOOLEAN, blit_target : BOOLEAN,
                 import : Imports \cup ExportedImports(document),
                 inst_model : InstallationModels] :
          /\ args' = a
          /\ IF a.update
             THEN /\ calls' = <<"refresh_repositories">>
                  /\ \/ /\ \E fresh \in SUBSET PackageIds : available' = fresh
                        /\ Continue("opened")
                     \/ /\ Return("open", "Client")
                        /\ UNCHANGED available
             ELSE /\ Continue("opened")
                  /\ UNCHANGED <<calls, available>>
    /\ pre' = [stateDb |-> stateDb, active |-> active, available |-> available']
    /\ UNCHANGED <<stateDb, active, nextId, system_model, installed, finalized,
                   synced, removed, new_selections, answer, lost, tx, prev,
                   missing_provider, cmd, document>>

\* SyncLoadModel preferring the installation's system model to `import`
SyncLoadModel_installed_first ==
    /\ pc = "opened"
    /\ calls' = IF args.import.kind = "none" THEN calls
                ELSE Append(calls, "system_model::load")
    /\ IF args.import.kind = "nofile"
       THEN /\ Return("load", "ImportSystemModelDoesntExist")
            /\ UNCHANGED system_model
       ELSE /\ system_model' = IF args.inst_model.some
                               THEN args.inst_model
                               ELSE IF args.import.kind = "file"
                                    THEN SomeModel(args.import.packages)
                                    ELSE NoModel
            /\ Continue("loaded")
    /\ UNCHANGED <<available, stateDb, active, nextId, args, installed, finalized,
                   synced, removed, new_selections, answer, lost, tx, pre, prev,
                   missing_provider, cmd, document>>

\* lines 76-80: the system model, `import` first
SyncLoadModel ==
    /\ pc = "opened"
    /\ calls' = IF args.import.kind = "none" THEN calls
                ELSE Append(calls, "system_model::load")
    /\ IF args.import.kind = "nofile"
       THEN /\ Return("load", "ImportSystemModelDoesntExist")
            /\ UNCHANGED system_model
       ELSE /\ system_model' = IF args.import.kind = "file"
                               THEN SomeModel(args.import.packages)
                               ELSE args.inst_model
            /\ Continue("loaded")
    /\ UNCHANGED <<available, stateDb, active, nextId, args, installed, finalized,
                   synced, removed, new_selections, answer, lost, tx, pre, prev,
                   missing_provider, cmd, document>>

\* lines 83-107: the installed set is read and the final set resolved
SyncResolve ==
    /\ pc = "loaded"
    /\ LET inst == list_installed(stateDb, active)
           r == IF system_model.some
                THEN resolve_with_system_model(available, system_model, inst)
                ELSE resolve_with_installed(available, inst)
       IN  /\ installed' = inst
           /\ tx' = r.tx
           /\ missing_provider' = r.provider
           /\ calls' = calls \o <<"list_installed", "resolve">>
           /\ IF r.err = "none"
              THEN /\ finalized' = r.packages
                   /\ Continue("resolved")
              ELSE /\ Return("resolve", r.err)
                   /\ UNCHANGED finalized
    /\ UNCHANGED <<available, stateDb, active, nextId, args, system_model,
                   synced, removed, new_selections, answer, lost, pre, prev,
                   cmd, document>>

\* NothingToSync with the second test negated
NothingToSync_negated(s, r) == s = <<>> /\ r # <<>>

\* line 129: nothing to do
NothingToSync(s, r) == s = <<>> /\ r = <<>>

\* lines 113-132: the diff; an empty diff ends the run
SyncDiff ==
    /\ pc = "resolved"
    /\ LET s == Synced(finalized, installed, is_ephemeral(args))
           r == Removed(installed, finalized)
       IN  /\ synced' = s
           /\ removed' = r
           /\ IF NothingToSync(s, r)
              THEN Return("diff", "Ok")
              ELSE Continue("diffed")
    /\ UNCHANGED <<available, stateDb, active, nextId, args, system_model, installed,
                   finalized, new_selections, answer, lost, tx, calls, pre, prev,
                   missing_provider, cmd, document>>

\* SyncConfirm without the `if !result` return
SyncConfirm_unchecked ==
    /\ pc = "diffed"
    /\ IF args.yes_all
       THEN /\ Continue("confirmed")
            /\ UNCHANGED <<calls, answer>>
       ELSE /\ calls' = Append(calls, "confirm")
            /\ \E ans \in {"yes", "no", "error"} :
                  /\ answer' = ans
                  /\ IF ans = "error"
                     THEN Return("confirm", "Dialog")
                     ELSE Continue("confirmed")
    /\ UNCHANGED <<available, stateDb, active, nextId, args, system_model, installed,
                   finalized, synced, removed, new_selections, lost, tx, pre, prev,
                   missing_provider, cmd, document>>

\* lines 147-158: the prompt, unless yes-to-all
SyncConfirm ==
    /\ pc = "diffed"
    /\ IF args.yes_all
       THEN /\ Continue("confirmed")
            /\ UNCHANGED <<calls, answer>>
       ELSE /\ calls' = Append(calls, "confirm")
            /\ \E ans \in {"yes", "no", "error"} :
                  /\ answer' = ans
                  /\ CASE ans = "yes" -> Continue("confirmed")
                       [] ans = "no" -> Return("confirm", "Cancelled")
                       [] OTHER -> Return("confirm", "Dialog")
    /\ UNCHANGED <<available, stateDb, active, nextId, args, system_model, installed,
                   finalized, synced, removed, new_selections, lost, tx, pre, prev,
                   missing_provider, cmd, document>>

\* what the fetch collaborator may fail to fetch: nothing, one package, all
FetchFailures(pkgs) ==
    {{}} \cup {{pkgs[i]} : i \in DOMAIN pkgs} \cup {Range(pkgs)}

\* SyncCache without the `?` on cache_packages
SyncCache_unchecked ==
    /\ pc = "confirmed"
    /\ calls' = Append(calls, "cache_packages")
    /\ \E failed \in FetchFailures(synced) :
          /\ lost' = failed
          /\ Continue("cached")
    /\ UNCHANGED <<available, stateDb, active, nextId, args, system_model, installed,
                   finalized, synced, removed, new_selections, answer, tx, pre, prev,
                   missing_provider, cmd, document>>

\* line 170: every synced package is fetched, or the run fails
SyncCache ==
    /\ pc = "confirmed"
    /\ calls' = Append(calls, "cache_packages")
    /\ \E failed \in FetchFailures(synced) :
          /\ lost' = failed
          /\ IF failed = {}
             THEN Continue("cached")
             ELSE Return("cache", "Client")
    /\ UNCHANGED <<available, stateDb, active, nextId, args, system_model, installed,
                   finalized, synced, removed, new_selections, answer, tx, pre, prev,
                   missing_provider, cmd, document>>

\* lines 182-245: the new selections and the commit
SyncCommit ==
    /\ pc = "cached"
    /\ IF ~system_model.some /\ active # NoState /\ active \notin DOMAIN stateDb
       THEN /\ Return("commit", "DB")
            /\ calls' = Append(calls, "state_db.get")
            /\ UNCHANGED <<stateDb, active, nextId, new_selections>>
       ELSE LET sels == IF system_model.some
                        THEN SystemModelSelections(finalized, system_model)
                        ELSE CarriedSelections(finalized, installed,
                                 IF active = NoState THEN <<>> ELSE stateDb[active])
                n == new_state(stateDb, active, nextId, sels, is_ephemeral(args))
            IN  /\ new_selections' = sels
                /\ calls' = (IF system_model.some \/ active = NoState THEN calls
                             ELSE Append(calls, "state_db.get")) \o <<"new_state">>
                /\ \/ /\ stateDb' = n.db
                      /\ active' = n.active
                      /\ nextId' = n.next
                      /\ Return("commit", "Ok")
                   \/ /\ Return("commit", "Client")
                      /\ UNCHANGED <<stateDb, active, nextId>>
    /\ UNCHANGED <<available, args, system_model, installed, finalized, synced,
                   removed, answer, lost, tx, pre, prev,
                   missing_provider, cmd, document>>

\* whether the finished run committed a state
Committed == result = "Ok" /\ ended = "commit" /\ ~args.blit_target

\* the process exits; what the next run may rely on is remembered
SyncExit ==
    /\ pc = "done"
    /\ pc' = "idle"
    /\ prev' = IF Committed
               THEN [committed |-> TRUE, model |-> system_model, available |-> available]
               ELSE NoPrev
    /\ ResetLocals
    /\ UNCHANGED <<available, stateDb, active, nextId, cmd, document>>

Next ==
    \/ SyncOpen
    \/ SyncLoadModel
    \/ SyncResolve
    \/ SyncDiff
    \/ SyncConfirm
    \/ SyncCache
    \/ SyncCommit
    \/ SyncExit

Spec == Init /\ [][Next]_vars

----------------------------------------------------------------------------
(* state.rs: the ID argument.  An unsigned 64-bit value is kept as four     *)
(* 16-bit limbs, most significant first.                                    *)

U64(n) == <<0, 0, n \div 65536, n % 65536>>

\* whether the value is at most i32::MAX
FitsI32(ID) == ID[1] = 0 /\ ID[2] = 0 /\ ID[3] < 32768

\* `as i32`: the low 32 bits, read as two's complement
as_i32(ID) ==
    IF ID[3] >= 32768
    THEN (ID[3] - 65536) * 65536 + ID[4]
    ELSE ID[3] * 65536 + ID[4]

----------------------------------------------------------------------------
(* State store (spec 4.3): activate, prune, export *)

StateIds(db) == DOMAIN db

Drop(db, gone) == [i \in DOMAIN db \ gone |-> db[i]]

\* activate: the id must name a stored state other than the active one
activate_state(db, act, id) ==
    IF id \notin StateIds(db) THEN [err |-> "NotFound", active |-> act, old |-> act]
    ELSE IF id = act THEN [err |-> "AlreadyActive", active |-> act, old |-> act]
    ELSE [err |-> "none", active |-> id, old |-> act]

\* KeepRecent: of the archived states older than the active one (of all the
\* archived states with include_newer) the `keep` most recent are retained
KeepRecent(db, act, keep, include_newer) ==
    LET candidates == {i \in StateIds(db) : i # act /\ (include_newer \/ i < act)}
        retained == {i \in candidates : Cardinality({j \in candidates : j > i}) < keep}
    IN  [err |-> "none", removals |-> candidates \ retained]

\* Remove without the test for the active state
Remove_any(db, act, id) ==
    IF id \notin StateIds(db) THEN [err |-> "NotFound", removals |-> {}]
    ELSE [err |-> "none", removals |-> {id}]

\* Remove: exactly one archived state
Remove(db, act, id) ==
    IF id = act /\ act # NoState THEN [err |-> "CannotRemoveActive", removals |-> {}]
    ELSE IF id \notin StateIds(db) THEN [err |-> "NotFound", removals |-> {}]
    ELSE [err |-> "none", removals |-> {id}]

\* export_state: the name providers of the state's explicit selections
export_state(db, id) ==
    IF id \notin StateIds(db) THEN [err |-> "NotFound", packages |-> {}]
    ELSE [err |-> "none",
          packages |-> {Name(db[id][k].package) :
                            k \in {j \in DOMAIN db[id] : db[id][j].explicit}}]

----------------------------------------------------------------------------
(* The `state` subcommands, state.rs *)

\* line 52: --keep defaults to 10
KeepDefault == 10

\* the largest id of the stores drawn for the `state` subcommands
MaxStored == 10

\* ID arguments: small ids, and values past i32::MAX
IDs ==
    {U64(n) : n \in {1, 2, 3, 4, MaxStored}}
        \cup {<<0, 1, 0, 1>>, <<0, 0, 32768, 2>>, <<65535, 65535, 65535, 65535>>}

\* --keep arguments: the parser admits 1 and above
Keeps == {1, 2, 3, KeepDefault}

\* a command begins: its arguments, and the store as it finds it
Begin(op, ID, id) ==
    [NoCmd EXCEPT !.op = op, !.ID = ID, !.id = id,
                  !.before = [stateDb |-> stateDb, active |-> active]]

\* lines 130-144: activate
StateActivate ==
    /\ pc = "idle"
    /\ \E ID \in IDs, skip_triggers \in BOOLEAN :
          LET new_id == as_i32(ID)
              r == activate_state(stateDb, active, new_id)
              c == Begin("activate", ID, new_id)
          IN  \/ /\ r.err = "none"
                 /\ active' = r.active
                 /\ cmd' = [c EXCEPT !.result = "Ok", !.old = r.old]
              \/ /\ active' = active
                 /\ cmd' = [c EXCEPT !.result = "Client",
                               !.error = IF r.err = "none" THEN "Io" ELSE r.err]
    /\ pc' = "state_done"
    /\ prev' = NoPrev
    /\ UNCHANGED <<available, stateDb, nextId, args, system_model, installed, finalized,
                   synced, removed, new_selections, answer, lost, result, ended, tx,
                   calls, pre, missing_provider, document>>

\* print_state_selections listing every selection
print_state_selections_all(state, avail, inst) ==
    [k \in DOMAIN state |->
        [package |-> state[k].package, name |-> Name(state[k].package),
         explicit |-> state[k].explicit]]

\* lines 252-266: the packages printed for a state, the selections the
\* registry cannot resolve left out
print_state_selections(state, avail, inst) ==
    LET known == SelectSeq(state, LAMBDA sel : sel.package \in Known(avail, inst))
    IN  [k \in DOMAIN known |->
            [package |-> known[k].package, name |-> Name(known[k].package),
             explicit |-> known[k].explicit]]

\* lines 146-157: query
StateQuery ==
    /\ pc = "idle"
    /\ \E ID \in IDs :
          LET id == as_i32(ID)
              c == Begin("query", ID, id)
          IN  cmd' = IF id \in StateIds(stateDb)
                     THEN [c EXCEPT !.result = "Ok",
                              !.printed = print_state_selections(stateDb[id], available,
                                              list_installed(stateDb, active))]
                     ELSE [c EXCEPT !.result = "DB", !.error = "NotFound"]
    /\ pc' = "state_done"
    /\ prev' = NoPrev
    /\ UNCHANGED <<available, stateDb, active, nextId, args, system_model, installed,
                   finalized, synced, removed, new_selections, answer, lost, result,
                   ended, tx, calls, pre, missing_provider, document>>

\* prune_states: a failed strategy removes nothing; the removals are carried
\* out with `yes` or once the prompt is approved
PruneStates(c, r, yes) ==
    IF r.err # "none"
    THEN /\ cmd' = [c EXCEPT !.result = "Client", !.error = r.err, !.yes = yes]
         /\ UNCHANGED stateDb
    ELSE \E approved \in IF yes THEN {TRUE} ELSE BOOLEAN :
            /\ cmd' = [c EXCEPT !.result = "Ok", !.yes = yes, !.removals = r.removals,
                          !.confirmed = approved]
            /\ stateDb' = IF approved THEN Drop(stateDb, r.removals) ELSE stateDb

\* Strategy built with include_newer always set
Strategy_include_newer(keep, include_newer) ==
    [keep |-> keep, include_newer |-> TRUE]

\* line 165: prune::Strategy::KeepRecent { keep, include_newer }
Strategy(keep, include_newer) ==
    [keep |-> keep, include_newer |-> include_newer]

\* lines 159-168: prune
StatePrune ==
    /\ pc = "idle"
    /\ \E keep \in Keeps, include_newer \in BOOLEAN, yes \in BOOLEAN :
          LET strategy == Strategy(keep, include_newer)
          IN  PruneStates([Begin("prune", U64(0), NoState) EXCEPT
                              !.keep = keep, !.include_newer = include_newer],
                          KeepRecent(stateDb, active, strategy.keep,
                                     strategy.include_newer), yes)
    /\ pc' = "state_done"
    /\ prev' = NoPrev
    /\ UNCHANGED <<available, active, nextId, args, system_model, installed, finalized,
                   synced, removed, new_selections, answer, lost, result, ended, tx,
                   calls, pre, missing_provider, document>>

\* lines 170-178: remove
StateRemove ==
    /\ pc = "idle"
    /\ \E ID \in IDs, yes \in BOOLEAN :
          LET id == as_i32(ID)
          IN  PruneStates(Begin("remove", ID, id), Remove(stateDb, active, id), yes)
    /\ pc' = "state_done"
    /\ prev' = NoPrev
    /\ UNCHANGED <<available, active, nextId, args, system_model, installed, finalized,
                   synced, removed, new_selections, answer, lost, result, ended, tx,
                   calls, pre, missing_provider, document>>

\* lines 190-232: export, of the given state or else the active one
StateExport ==
    /\ pc = "idle"
    /\ \E given \in {NoState} \cup 1..MaxStateId, to_file \in BOOLEAN :
          LET id == IF given # NoState THEN given ELSE active
              c == Begin("export", U64(given), id)
              r == export_state(stateDb, id)
          IN  IF id = NoState
              THEN /\ cmd' = [c EXCEPT !.result = "NoActiveState"]
                   /\ UNCHANGED document
              ELSE IF r.err # "none"
              THEN /\ cmd' = [c EXCEPT !.result = "Client", !.error = r.err]
                   /\ UNCHANGED document
              ELSE /\ cmd' = [c EXCEPT !.result = "Ok"]
                   /\ document' = IF to_file
                                  THEN [written |-> TRUE, state |-> id,
                                        packages |-> r.packages]
                                  ELSE document
    /\ pc' = "state_done"
    /\ prev' = NoPrev
    /\ UNCHANGED <<available, stateDb, active, nextId, args, system_model, installed,
                   finalized, synced, removed, new_selections, answer, lost, result,
                   ended, tx, calls, pre, missing_provider>>

\* the command's process exits
StateExit ==
    /\ pc = "state_done"
    /\ pc' = "idle"
    /\ cmd' = NoCmd
    /\ UNCHANGED <<available, stateDb, active, nextId, args, system_model, installed,
                   finalized, synced, removed, new_selections, answer, lost, result,
                   ended, tx, calls, pre, prev, missing_provider, document>>

\* sync, activate, prune and remove on one installation
StoreNext ==
    \/ SyncOpen
    \/ SyncLoadModel
    \/ SyncResolve
    \/ SyncDiff
    \/ SyncConfirm
    \/ SyncCache
    \/ SyncCommit
    \/ SyncExit
    \/ StateActivate
    \/ StatePrune
    \/ StateRemove
    \/ StateExit

StoreSpec == Init /\ [][StoreNext]_vars

\* sync and export on one installation
ExportNext ==
    \/ SyncOpen
    \/ SyncLoadModel
    \/ SyncResolve
    \/ SyncDiff
    \/ SyncConfirm
    \/ SyncCache
    \/ SyncCommit
    \/ SyncExit
    \/ StateExport
    \/ StateExit

ExportSpec == Init /\ [][ExportNext]_vars

\* the `state` subcommands on an installation that holds the states 1..n,
\* any of them active
StateInit ==
    /\ available \in SUBSET PackageIds
    /\ \E n \in 0..MaxStored :
          /\ stateDb = [i \in 1..n |-> StoredSelections(i)]
          /\ active \in IF n = 0 THEN {NoState} ELSE 1..n
          /\ nextId = n + 1
    /\ pc = "idle"
    /\ Locals0
    /\ prev = NoPrev
    /\ cmd = NoCmd
    /\ document = NoDocument

StateNext ==
    \/ StateActivate
    \/ StateQuery
    \/ StatePrune
    \/ StateRemove
    \/ StateExit

StateSpec == StateInit /\ [][StateNext]_vars

----------------------------------------------------------------------------
(* Properties *)

Called(c) == \E i \in DOMAIN calls : calls[i] = c

\* the run has computed its diff
DiffComputed ==
    pc \in {"diffed", "confirmed", "cached"}
        \/ (pc = "done" /\ ended \in {"diff", "confirm", "cache", "commit"})

StoreUntouched == stateDb = pre.stateDb /\ active = pre.active

\* the member of S that comes first in the registry order
HighestPriority(S) == Head(SelectSeq(Priority, LAMBDA id : id \in S))

\* position of a package in the finalized list
Pos(p) == CHOOSE k \in DOMAIN finalized : finalized[k] = p

\* C1: a run whose synced and removed sets are both empty returns Ok from
\* the diff, never asks for confirmation, never calls cache_packages or
\* new_state, and leaves the stored states and the active pointer as they were.
C1_EmptyDiffIsNoOp ==
    (DiffComputed /\ synced = <<>> /\ removed = <<>>) =>
        /\ pc = "done"
        /\ ended = "diff"
        /\ result = "Ok"
        /\ ~Called("confirm")
        /\ ~Called("cache_packages")
        /\ ~Called("new_state")
        /\ answer = "none"
        /\ StoreUntouched

C1_Witness ==
    /\ pc = "done"
    /\ ended = "diff"
    /\ installed # <<>>
    /\ finalized # <<>>
    /\ synced = <<>>
    /\ removed = <<>>

C3_DeclineCancels ==
    /\ answer = "no" =>
          /\ pc = "done"
          /\ ended = "confirm"
          /\ result = "Cancelled"
          /\ ~Called("cache_packages")
          /\ ~Called("new_state")
          /\ StoreUntouched
          /\ available = pre.available
          /\ list_installed(stateDb, active) = installed
    /\ Called("confirm") =>
          /\ ~args.yes_all
          /\ ~(synced = <<>> /\ removed = <<>>)
    /\ (args.yes_all /\ DiffComputed /\ ~(synced = <<>> /\ removed = <<>>)) =>
          /\ ~Called("confirm")
          /\ answer = "none"
          /\ pc # "diffed" => (pc \in {"confirmed", "cached"} \/ Called("cache_packages"))

C3_Witness ==
    /\ pc = "done"
    /\ answer = "no"
    /\ result = "Cancelled"
    /\ synced # <<>>
    /\ removed # <<>>

\* C4: when cache_packages fails to fetch any of the synced packages the run
\* returns an error and new_state is not called; new_state is only ever
\* called after cache_packages fetched every synced package.
C4_FetchFailureAborts ==
    /\ lost # {} =>
          /\ pc = "done"
          /\ ended = "cache"
          /\ result = "Client"
          /\ ~Called("new_state")
          /\ new_selections = <<>>
          /\ StoreUntouched
    /\ Called("new_state") => (Called("cache_packages") /\ lost = {})

C4_Witness ==
    /\ pc = "done"
    /\ ended = "cache"
    /\ lost # {}
    /\ lost # Range(synced)

\* the selections of the state that was active when the run began
PreviousSelections ==
    IF pre.active \in DOMAIN pre.stateDb THEN pre.stateDb[pre.active] ELSE <<>>

C6_SystemModelSelections ==
    (Called("new_state") /\ system_model.some) =>
        /\ Len(new_selections) = Len(finalized)
        /\ \A k \in DOMAIN finalized :
              /\ new_selections[k].package = finalized[k]
              /\ new_selections[k].explicit <=>
                    \E pr \in system_model.packages : pr \in Providers(finalized[k])
              /\ new_selections[k].reason = "none"

C6_Witness ==
    /\ pc = "done"
    /\ Committed
    /\ system_model.some
    /\ \E k \in DOMAIN finalized :
          /\ new_selections[k].explicit
          /\ Name(finalized[k]) \notin system_model.packages
    /\ \E k \in DOMAIN finalized : \E s \in Range(PreviousSelections) :
          /\ s.package = finalized[k]
          /\ s.reason = "user"

\* the system model a run must use: `import` first, then the installation's
GivenModel ==
    IF args.import.kind = "file" THEN SomeModel(args.import.packages)
    ELSE args.inst_model

\* C7: a run given a system model (by `import`, else on the installation)
\* opens its transaction with AvailableOnly, seeded with the highest-priority
\* available provider of each declared provider; otherwise with
\* PreferAvailable, every seed bearing the name of an explicit installed
\* package; an `import` that names no system model fails before resolution.
C7_SeedAndLookup ==
    /\ tx.opened =>
          IF GivenModel.some
          THEN /\ tx.lookup = "AvailableOnly"
               /\ \A pr \in GivenModel.packages : \E q \in available : pr \in Providers(q)
               /\ Range(tx.seeds) =
                     {HighestPriority({q \in available : pr \in Providers(q)}) :
                         pr \in GivenModel.packages}
          ELSE /\ tx.lookup = "PreferAvailable"
               /\ \A i \in DOMAIN tx.seeds : \E j \in DOMAIN installed :
                     installed[j].explicit /\ Name(installed[j].id) = Name(tx.seeds[i])
    /\ args.import.kind = "nofile" =>
          /\ ~tx.opened
          /\ ~Called("list_installed")
          /\ ~Called("resolve")
          /\ Called("system_model::load") =>
                (pc = "done" /\ ended = "load" /\ result = "ImportSystemModelDoesntExist")

C7_Witness ==
    /\ tx.opened
    /\ args.import.kind = "file"
    /\ args.inst_model.some
    /\ Len(tx.seeds) = 2
    /\ installed # <<>>

\* C8: synced holds exactly the finalized packages that are not installed by
\* id, or every finalized package for an ephemeral client, in finalized order.
C8_SyncedExact ==
    DiffComputed =>
        /\ Range(synced) =
              {p \in Range(finalized) : args.blit_target \/ p \notin InstalledIds(installed)}
        /\ \A i, j \in DOMAIN synced : i < j => Pos(synced[i]) < Pos(synced[j])

C8_Witness ==
    /\ DiffComputed
    /\ args.blit_target
    /\ Len(synced) = 2
    /\ \E k \in DOMAIN synced : synced[k] \in InstalledIds(installed)

\* C9: removed holds exactly the installed packages whose name no finalized
\* package bears; an installed package replaced by another id of its name is
\* not removed.
C9_RemovedExact ==
    DiffComputed =>
        /\ Range(removed) =
              {id \in InstalledIds(installed) :
                  \A f \in Range(finalized) : Name(f) # Name(id)}
        /\ Len(removed) = Cardinality(Range(removed))
        /\ \A id \in InstalledIds(installed) :
              (\E f \in Range(finalized) : Name(f) = Name(id) /\ f # id) =>
                  id \notin Range(removed)

C9_Witness ==
    /\ DiffComputed
    /\ removed # <<>>
    /\ \E id \in InstalledIds(installed) :
          \E f \in Range(finalized) : Name(f) = Name(id) /\ f # id

\* C10: in the installed-set mode the i-th seed comes from the i-th explicit
\* installed package: the highest-priority available package of its name when
\* there is one and it is not installed, the installed package's id otherwise.
C10_Seeds ==
    (tx.opened /\ tx.lookup = "PreferAvailable") =>
        LET expl == SelectSeq(installed, LAMBDA p : p.explicit)
        IN  /\ Len(tx.seeds) = Len(expl)
            /\ \A i \in DOMAIN expl :
                  LET own == expl[i].id
                      cands == {q \in available : Name(q) = Name(own)}
                  IN  tx.seeds[i] =
                         IF cands # {} /\ HighestPriority(cands) \notin InstalledIds(installed)
                         THEN HighestPriority(cands)
                         ELSE own

C10_Witness ==
    /\ tx.opened
    /\ tx.lookup = "PreferAvailable"
    /\ Len(tx.seeds) = 2
    /\ tx.seeds[1] \notin InstalledIds(installed)
    /\ tx.seeds[2] \in InstalledIds(installed)
    /\ \E q \in available : Name(q) = Name(tx.seeds[2])

\* C11: a run with a blit target leaves the stored states and the active
\* pointer as they were when it began, in every phase and whatever its result.
C11_BlitTargetNeverPersists ==
    (pc # "idle" /\ args.blit_target) =>
        StoreUntouched

C11_Witness ==
    /\ pc = "done"
    /\ args.blit_target
    /\ Called("new_state")
    /\ result = "Ok"
    /\ installed # <<>>
    /\ new_selections # pre.stateDb[pre.active]

\* the phase a collaborator call belongs to, and the order of the phases
PhaseOf(c) ==
    CASE c = "refresh_repositories" -> "open"
      [] c = "system_model::load" -> "load"
      [] c \in {"list_installed", "resolve"} -> "resolve"
      [] c = "confirm" -> "confirm"
      [] c = "cache_packages" -> "cache"
      [] OTHER -> "commit"

PhaseRank(ph) ==
    CASE ph = "open" -> 1
      [] ph = "load" -> 2
      [] ph = "resolve" -> 3
      [] ph = "diff" -> 4
      [] ph = "confirm" -> 5
      [] ph = "cache" -> 6
      [] OTHER -> 7

\* the place of a collaborator call in the order the claim gives
CallRank(c) ==
    CASE c = "refresh_repositories" -> 1
      [] c = "system_model::load" -> 2
      [] c = "list_installed" -> 3
      [] c = "resolve" -> 4
      [] c = "confirm" -> 5
      [] c = "cache_packages" -> 6
      [] c = "state_db.get" -> 7
      [] OTHER -> 8

\* C16: within one run the collaborators are called in one order, each at
\* most once: the repositories are refreshed (when `update` is set) before
\* the installed set is read and the resolution; the resolution comes before
\* the confirmation; cache_packages is called only once the confirmation is
\* approved; new_state is called after cache_packages fetched everything and
\* after the previous selections were read; once a phase has failed the run
\* is over and no later phase has run.
C16_PhaseOrder ==
    /\ \A i \in DOMAIN calls : i = 1 \/ CallRank(calls[i - 1]) < CallRank(calls[i])
    /\ (args.update /\ Called("list_installed")) => Called("refresh_repositories")
    /\ Called("confirm") => (Called("resolve") /\ DiffComputed)
    /\ Called("cache_packages") =>
          /\ Called("resolve")
          /\ IF args.yes_all THEN ~Called("confirm") ELSE answer = "yes"
    /\ Called("new_state") =>
          /\ Called("cache_packages")
          /\ lost = {}
          /\ (~system_model.some /\ pre.active # NoState) => Called("state_db.get")
    /\ result \notin {"none", "Ok"} => pc = "done"
    /\ pc = "done" => (calls = <<>> \/
          PhaseRank(PhaseOf(calls[Len(calls)])) <= PhaseRank(ended))

C16_Witness ==
    /\ pc = "done"
    /\ result = "Ok"
    /\ calls = <<"refresh_repositories", "list_installed", "resolve", "confirm",
                 "cache_packages", "state_db.get", "new_state">>

\* C18: in a run driven by a system model, when a declared provider has no
\* available candidate the run ends in the resolution with
\* MissingSystemModelPackage carrying such a provider, without a transaction,
\* a confirmation, a fetch or a new state; otherwise the transaction is
\* seeded with the highest-priority available candidate of every declared
\* provider and nothing else.
C18_MissingSystemModelPackage ==
    (system_model.some /\ Called("resolve")) =>
        LET lacking == {pr \in system_model.packages :
                           \A q \in available : pr \notin Providers(q)}
        IN  IF lacking # {}
            THEN /\ pc = "done"
                 /\ ended = "resolve"
                 /\ result = "MissingSystemModelPackage"
                 /\ missing_provider \in lacking
                 /\ ~tx.opened
                 /\ finalized = <<>>
                 /\ ~Called("confirm")
                 /\ ~Called("cache_packages")
                 /\ ~Called("new_state")
                 /\ StoreUntouched
            ELSE /\ result # "MissingSystemModelPackage"
                 /\ missing_provider = ""
                 /\ tx.opened
                 /\ Range(tx.seeds) =
                       {HighestPriority({q \in available : pr \in Providers(q)}) :
                           pr \in system_model.packages}

C18_Witness ==
    /\ pc = "done"
    /\ result = "MissingSystemModelPackage"
    /\ missing_provider = "v"
    /\ \E q \in available : "a" \in Providers(q)
    /\ installed # <<>>

\* C19: the selections handed to new_state are one per finalized package, in
\* the order of the finalized list, the k-th bearing the id of the k-th
\* finalized package, with or without a system model.
C19_OneSelectionPerFinalized ==
    Called("new_state") =>
        /\ Len(new_selections) = Len(finalized)
        /\ \A k \in DOMAIN finalized : new_selections[k].package = finalized[k]

C19_Witness ==
    /\ Called("new_state")
    /\ ~system_model.some
    /\ Len(finalized) = 2
    /\ \E k \in DOMAIN finalized : \E j \in DOMAIN installed :
          /\ finalized[k] \notin InstalledIds(installed)
          /\ Name(installed[j].id) = Name(finalized[k])
          /\ installed[j].explicit

\* the names of the packages a selection list flags explicit
ExplicitNames(sels) == {Name(s.package) : s \in {x \in Range(sels) : x.explicit}}
ExplicitIds(sels) == {s.package : s \in {x \in Range(sels) : x.explicit}}

C13_ActiveStateIsStored ==
    /\ IF active = NoState THEN StateIds(stateDb) = {} ELSE active \in StateIds(stateDb)
    /\ cmd.op \in {"prune", "remove"} =>
          /\ active = cmd.before.active
          /\ active \notin cmd.removals
          /\ StateIds(stateDb) \subseteq StateIds(cmd.before.stateDb)
    /\ (cmd.op = "remove" /\ cmd.id = cmd.before.active) =>
          /\ cmd.result = "Client"
          /\ cmd.error = "CannotRemoveActive"
          /\ stateDb = cmd.before.stateDb

C13_Witness ==
    /\ cmd.op = "remove"
    /\ cmd.error = "CannotRemoveActive"
    /\ cmd.yes
    /\ active = 1
    /\ StateIds(stateDb) = {1, 3}

\* C14: a confirmed prune without include_newer removes exactly the states
\* older than the active one except the `keep` most recent of them; the
\* active state and the newer ones stay, unchanged; `keep` is at least 1;
\* of the states 1..10 with 10 active and keep 3, exactly 1..6 are removed.
C14_PruneRetention ==
    cmd.op = "prune" =>
        /\ cmd.keep >= 1
        /\ (~cmd.include_newer /\ cmd.confirmed) =>
              LET ids == StateIds(cmd.before.stateDb)
                  act == cmd.before.active
                  older == {i \in ids : i < act}
                  gone == ids \ StateIds(stateDb)
                  kept == older \ gone
              IN  /\ cmd.result = "Ok"
                  /\ gone = cmd.removals
                  /\ gone \subseteq older
                  /\ Cardinality(kept) =
                        IF Cardinality(older) < cmd.keep THEN Cardinality(older)
                        ELSE cmd.keep
                  /\ \A i \in kept : \A j \in gone : j < i
                  /\ active = act
                  /\ \A i \in StateIds(stateDb) : stateDb[i] = cmd.before.stateDb[i]
                  /\ (ids = 1..10 /\ act = 10 /\ cmd.keep = 3) => gone = 1..6

C14_Witness ==
    /\ cmd.op = "prune"
    /\ ~cmd.include_newer
    /\ cmd.confirmed
    /\ cmd.keep = 3
    /\ StateIds(cmd.before.stateDb) = 1..10
    /\ cmd.before.active = 10
    /\ StateIds(stateDb) = 7..10

\* the ID argument has the numeric value n
NumericallyEqual(ID, n) == FitsI32(ID) /\ n = ID[3] * 65536 + ID[4]

\* C15: activate, query and remove act on the state whose id is numerically
\* equal to their ID argument: an ID that names no stored state is reported
\* as unknown, and no stored state is activated, printed or removed for it.
C15_IdPassedUnchanged ==
    (/\ cmd.op \in {"activate", "query", "remove"}
     /\ \A i \in StateIds(cmd.before.stateDb) : ~NumericallyEqual(cmd.ID, i)) =>
        /\ cmd.result # "Ok"
        /\ cmd.printed = <<>>
        /\ stateDb = cmd.before.stateDb
        /\ active = cmd.before.active

\* C17: a query of a stored state succeeds whatever the registry knows of
\* its packages; it prints, in selection order, exactly the selections whose
\* package the registry knows, each with the selection's explicit flag; a
\* query fails only for an ID that names no stored state.
C17_QueryOmitsUnknownPackages ==
    cmd.op = "query" =>
        IF cmd.id \in StateIds(stateDb)
        THEN LET sels == stateDb[cmd.id]
                 known == Known(available, list_installed(stateDb, active))
                 listed == SelectSeq(sels, LAMBDA sel : sel.package \in known)
             IN  /\ cmd.result = "Ok"
                 /\ Len(cmd.printed) = Len(listed)
                 /\ \A k \in DOMAIN listed :
                       /\ cmd.printed[k].package = listed[k].package
                       /\ cmd.printed[k].explicit = listed[k].explicit
                 /\ \A k \in DOMAIN cmd.printed : cmd.printed[k].package \in known
        ELSE /\ cmd.result = "DB"
             /\ cmd.error = "NotFound"
             /\ cmd.printed = <<>>
             /\ \A i \in StateIds(stateDb) : ~NumericallyEqual(cmd.ID, i)

C17_Witness ==
    /\ cmd.op = "query"
    /\ cmd.result = "Ok"
    /\ cmd.id # active
    /\ Len(stateDb[cmd.id]) = 2
    /\ Len(cmd.printed) = 1
    /\ cmd.printed[1].explicit

====
